---- MODULE Spec2Model ----
(***************************************************************************)
(* German B2 vocabulary pipeline (creating_audio_chunks.py).               *)
(*                                                                         *)
(* The state machines of this module:                                      *)
(*   Spec      - the Streamlit session: every step is one execution of the *)
(*               script (module level code followed by main()) with at     *)
(*               most one button reporting "pressed";                      *)
(*   SplitSpec - the chunk splitter of section 4.1 of the design note.     *)
(* ParseSpec applies the fence stripping and the parse of lines 157-167 to *)
(* response texts.                                                         *)
(***************************************************************************)
EXTENDS Integers, Sequences, FiniteSets, TLC

(***************************************************************************)
(* Bounds of the model.                                                    *)
(***************************************************************************)
MaxTotal == 2
MaxVocab == 2
MaxPayload == 6
MaxChunk == 8
SmallSize == 2
ReadIncrement == 2
MaxTokens == 5

(***************************************************************************)
(* Program constants.                                                      *)
(***************************************************************************)
NumOptions == 4
OptionKeys == <<"option_0", "option_1", "option_2", "option_3">>
DemoVocabLen == 3
MaxUploadBytes == 25 * 1024 * 1024

VARIABLES
    OPENAI_API_KEY,     \* TRUE iff os.getenv("OPENAI_API_KEY") is set
    transcript,         \* st.session_state.transcript
    vocabulary,         \* st.session_state.vocabulary
    quiz_score,         \* st.session_state.quiz_score
    quiz_total,         \* st.session_state.quiz_total
    current_step,       \* st.session_state.current_step
    current_quiz,       \* st.session_state.current_quiz
    quiz_answered,      \* st.session_state.quiz_answered
    selected_answer,    \* st.session_state.selected_answer
    pressed,            \* the button that reported True in the last run
    halt,               \* how the last run ended: done, rerun or crash
    errors,             \* st.error messages of the last run
    rendered,           \* buttons the last run put on the page, enabled
    attempted,          \* remote operations the last run called
    issued,             \* requests the last run sent to the API
    mainRan,            \* main() was entered in the last run
    quizFailed,         \* the latest generate_quiz_question call yielded no quiz
                        \* and "Next Question" has not been pressed since
    retried,            \* the last run sent a quiz request although the
                        \* latest call had yielded no quiz
    uploaded_audio,     \* uploaded_audio.size in the last run, 0 with no file
    source,             \* splitter: the bytes of the file at path
    chunk_size_bytes,   \* splitter: the target chunk size
    num_chunks,         \* splitter: N
    header,             \* splitter: the bytes read as header
    position,           \* splitter: the source read position
    files,              \* splitter: the chunk files on disk, chunk_1 first
    written,            \* splitter: payload bytes put in the open chunk
    result,             \* splitter: the chunk numbers appended to the result
    splitPc,            \* splitter: where the operation stands
    response,           \* parse: response.choices[0].message.content
    cleaned,            \* parse: content once the fences are dropped
    loaded,             \* parse: what json.loads made of it
    parsePc             \* parse: where lines 157-167 stand

sessionVars == <<transcript, vocabulary, quiz_score, quiz_total, current_step,
                 current_quiz, quiz_answered, selected_answer>>
runVars == <<pressed, halt, errors, rendered, attempted, issued, mainRan,
             quizFailed, retried, uploaded_audio>>
appVars == <<OPENAI_API_KEY, sessionVars, runVars>>
splitVars == <<source, chunk_size_bytes, num_chunks, header, position, files,
               written, result, splitPc>>
parseVars == <<response, cleaned, loaded, parsePc>>

(***************************************************************************)
(* Text values.  "" is the empty string, " " is whitespace only.  NoneText  *)
(* is Python's None where a text is expected.                              *)
(***************************************************************************)
NoneText == "<None>"
DemoText == "demo"
Texts == {"", " ", "t1"}

\* str.strip()
strip(t) == IF t = " " THEN "" ELSE t

TruthyText(t) == t # "" /\ t # NoneText

(***************************************************************************)
(* JSON values.  kind is the Python type json.loads produces; n is the     *)
(* length of a list, the value of a number, and for an object the value of *)
(* its "correct" key.                                                      *)
(***************************************************************************)
JList(n) == [kind |-> "list", n |-> n]
JObject(n) == [kind |-> "object", n |-> n]
JNumber(n) == [kind |-> "number", n |-> n]
JNull == [kind |-> "None", n |-> 0]

Truthy(v) == \/ v.kind = "list" /\ v.n > 0
             \/ v.kind = "object"
             \/ v.kind = "number" /\ v.n # 0

(***************************************************************************)
(* Response text of a chat completion, as a sequence of tokens: the code   *)
(* fence ```, the tag json, whitespace, a JSON value, or other text.       *)
(***************************************************************************)
FENCE == [t |-> "fence", v |-> JNull]
JSONTAG == [t |-> "jsontag", v |-> JNull]
WS == [t |-> "ws", v |-> JNull]
JUNK == [t |-> "junk", v |-> JNull]
Body(v) == [t |-> "json", v |-> v]

RECURSIVE lstrip(_)
lstrip(s) == IF s # <<>> /\ Head(s) = WS THEN lstrip(Tail(s)) ELSE s

RECURSIVE rstrip(_)
rstrip(s) == IF s # <<>> /\ s[Len(s)] = WS
             THEN rstrip(SubSeq(s, 1, Len(s) - 1)) ELSE s

stripSeq(s) == rstrip(lstrip(s))

startswith(s, p) == Len(s) >= Len(p) /\ SubSeq(s, 1, Len(p)) = p
endswith(s, p) == Len(s) >= Len(p) /\ SubSeq(s, Len(s) - Len(p) + 1, Len(s)) = p

\* line 160-161: if content.startswith("```json"): content = content[7:]
DropJsonFence(c) ==
    IF startswith(c, <<FENCE, JSONTAG>>) THEN SubSeq(c, 3, Len(c)) ELSE c

\* line 162-163: if content.startswith("```"): content = content[3:]
DropFence(c) == IF startswith(c, <<FENCE>>) THEN SubSeq(c, 2, Len(c)) ELSE c

\* line 164-165: if content.endswith("```"): content = content[:-3]
DropClosingFence(c) ==
    IF endswith(c, <<FENCE>>) THEN SubSeq(c, 1, Len(c) - 1) ELSE c

\* lines 157-165 / 214-222: strip, then drop ```json, then ```, then a
\* trailing ```
CleanFence(content) ==
    DropClosingFence(DropFence(DropJsonFence(stripSeq(content))))

\* one JSON value and nothing else
JsonDocument(c) ==
    IF Len(c) = 1 /\ c[1].t = "json"
    THEN [ok |-> TRUE, v |-> c[1].v]
    ELSE [ok |-> FALSE, v |-> JNull]

\* json.loads(content.strip())
json_loads(content) == JsonDocument(stripSeq(content))

(***************************************************************************)
(* Session values.                                                         *)
(***************************************************************************)
\* a vocabulary value: the JSON value and the text it was extracted from
Vocab(v, text) == [kind |-> v.kind, n |-> v.n, of |-> text]
EmptyVocab == [kind |-> "list", n |-> 0, of |-> ""]
DemoVocab == [kind |-> "list", n |-> DemoVocabLen, of |-> DemoText]

\* a quiz value: the JSON object, the word it was made for and the text
\* that word's vocabulary came from
Quiz(v, word, text) == [kind |-> v.kind, correct |-> v.n, word |-> word, of |-> text]
UnsetQuiz == [kind |-> "unset", correct |-> 0, word |-> 0, of |-> ""]
NoneQuiz == [kind |-> "None", correct |-> 0, word |-> 0, of |-> ""]
TruthyQuiz(q) == q.kind \notin {"unset", "None"} /\ Truthy([kind |-> q.kind, n |-> q.correct])

NoneAnswer == -1

(***************************************************************************)
(* The remote operations.  k is OPENAI_API_KEY: without it the name client *)
(* is unbound and every use raises NameError inside the try block.         *)
(***************************************************************************)
\* lines 27-49.  fileOk: open(path, "rb") succeeds; api: the outcome of
\* client.audio.transcriptions.create
transcribe_audio_file(k, fileOk, api) ==
    IF fileOk /\ k /\ api.ok
    THEN [result |-> api.text, errors |-> {}, issued |-> {"transcribe"}]
    ELSE [result |-> NoneText, errors |-> {"Transcription error"},
          issued |-> IF fileOk /\ k THEN {"transcribe"} ELSE {}]

\* lines 77-81: the except block; its own os.remove is not guarded
AudioHandler(io, errs, iss) ==
    [result |-> NoneText,
     errors |-> errs \cup {"Error processing audio"},
     issued |-> iss,
     raised |-> io.exists /\ ~io.cleanup]

\* lines 70-75, t being what transcribe_audio_file returned
AfterTranscription(io, t) ==
    IF ~io.remove THEN AudioHandler(io, t.errors, t.issued)
    ELSE [result |-> t.result, errors |-> t.errors, issued |-> t.issued,
          raised |-> FALSE]

\* lines 52-81.  io.write: writing the temporary file succeeds; io.remove:
\* os.remove on line 73 succeeds; io.exists: os.path.exists on line 79;
\* io.cleanup: os.remove on line 80 succeeds
transcribe_uploaded_audio(k, io, api) ==
    IF ~io.write THEN AudioHandler(io, {}, {})
    ELSE AfterTranscription(io, transcribe_audio_file(k, io.open, api))

\* lines 170-172: the except block
ExtractHandler(k, errs) ==
    [value |-> EmptyVocab, errors |-> errs,
     issued |-> IF k THEN {"extract"} ELSE {}]

ExtractParsedSilent(k, german_text, api, parsed) ==
    IF k /\ api.ok /\ parsed.ok
    THEN [value |-> Vocab(parsed.v, IF Truthy(parsed.v) THEN german_text ELSE ""),
          errors |-> {}, issued |-> {"extract"}]
    ELSE ExtractHandler(k, {})

\* lines 143-172, parsed being what json.loads makes of the response
ExtractParsed(k, german_text, api, parsed) ==
    IF k /\ api.ok /\ parsed.ok
    THEN [value |-> Vocab(parsed.v, IF Truthy(parsed.v) THEN german_text ELSE ""),
          errors |-> {}, issued |-> {"extract"}]
    ELSE ExtractHandler(k, {"Error extracting vocabulary"})

\* lines 89-172
extract_b2_vocabulary(k, german_text, api) ==
    ExtractParsed(k, german_text, api, json_loads(CleanFence(api.content)))

QuizParsedKeyless(k, word, text, api, parsed) ==
    IF api.ok /\ parsed.ok
    THEN [value |-> IF parsed.v.kind = "None" THEN NoneQuiz
                    ELSE Quiz(parsed.v, word, text),
          errors |-> {}, issued |-> {"quiz"}]
    ELSE [value |-> NoneQuiz, errors |-> {"Error generating quiz"},
          issued |-> {"quiz"}]

\* lines 201-228, parsed being what json.loads makes of the response
QuizParsed(k, word, text, api, parsed) ==
    IF k /\ api.ok /\ parsed.ok
    THEN [value |-> IF parsed.v.kind = "None" THEN NoneQuiz
                    ELSE Quiz(parsed.v, word, text),
          errors |-> {}, issued |-> {"quiz"}]
    ELSE [value |-> NoneQuiz, errors |-> {"Error generating quiz"},
          issued |-> IF k THEN {"quiz"} ELSE {}]

\* lines 180-228; building the prompt reads word_data['word'] and
\* word_data['translation'] of a well-formed vocabulary entry
generate_quiz_question(k, word, text, api) ==
    QuizParsed(k, word, text, api, json_loads(CleanFence(api.content)))

(***************************************************************************)
(* One execution of the script.  c is the session state together with what *)
(* the run has shown so far; e holds the widget values and the outcomes of *)
(* the external calls of this run.  Each operator below is one stretch of  *)
(* the script; st.rerun() and an uncaught exception end the run.           *)
(***************************************************************************)
Show(c, buttons) == [c EXCEPT !.rendered = @ \cup buttons]
Report(c, msgs) == [c EXCEPT !.errors = @ \cup msgs]
Rerun(c) == [c EXCEPT !.halt = "rerun"]
Crash(c) == [c EXCEPT !.halt = "crash"]

\* the remote operation op was called and returned r
Called(c, op, r) ==
    [c EXCEPT !.errors = @ \cup r.errors,
              !.attempted = @ \cup {op},
              !.issued = @ \cup r.issued]

\* the script goes on with the stretch F unless the run has ended
Then(c, F(_)) == IF c.halt = "none" THEN F(c) ELSE c

\* lines 1311-1345
DemoButton(c, e) ==
    IF e.pressed = "Launch Demo"
    THEN Rerun([c EXCEPT !.transcript = DemoText,
                         !.vocabulary = DemoVocab,
                         !.current_step = 3,
                         !.quiz_score = 0,
                         !.quiz_total = 0])
    ELSE c

\* lines 1284-1345: the module-level credential check and demo mode
ModuleLevel(c, e, k) ==
    IF k THEN c
    ELSE DemoButton(Show(Report(c, {"OpenAI API key not configured."}),
                         {"Launch Demo"}), e)

\* lines 891-897
ResetButton(c, e) ==
    IF e.pressed = "Reset Pipeline"
    THEN Rerun([c EXCEPT !.transcript = "",
                         !.vocabulary = EmptyVocab,
                         !.quiz_score = 0,
                         !.quiz_total = 0,
                         !.current_step = 1])
    ELSE c

\* lines 848-897: the sidebar; len() of a number raises TypeError
Sidebar(c, e) ==
    IF Truthy(c.vocabulary) /\ c.vocabulary.kind = "number" THEN Crash(c)
    ELSE ResetButton(Show(c, {"Reset Pipeline"}), e)

\* lines 940-944, c holding what the call reported
Transcribed(c, r) ==
    IF r.raised THEN Crash(c)
    ELSE IF TruthyText(r.result)
    THEN Rerun([c EXCEPT !.transcript = r.result, !.current_step = 2])
    ELSE c

\* line 938
TranscribeCall(c, r) == Transcribed(Called(c, "transcribe", r), r)

TranscribeButtonInclusive(c, e, k) ==
    IF e.pressed # "Transcribe Audio" THEN c
    ELSE IF e.audio >= MaxUploadBytes
    THEN Report(c, {"File too large! Maximum size is 25MB."})
    ELSE TranscribeCall(c, transcribe_uploaded_audio(k, e.io, e.stt))

\* lines 931-944
TranscribeButton(c, e, k) ==
    IF e.pressed # "Transcribe Audio" THEN c
    ELSE IF e.audio > MaxUploadBytes
    THEN Report(c, {"File too large! Maximum size is 25MB."})
    ELSE TranscribeCall(c, transcribe_uploaded_audio(k, e.io, e.stt))

\* lines 913-944
UploadAudio(c, e, k) ==
    IF e.audio = 0 THEN c
    ELSE TranscribeButton(Show([c EXCEPT !.uploaded_audio = e.audio],
                               {"Transcribe Audio"}), e, k)

LoadTextButtonFirstStep(c, e) ==
    IF e.pressed # "Load Text" THEN c
    ELSE IF strip(e.text_input) # ""
    THEN Rerun([c EXCEPT !.transcript = strip(e.text_input),
                         !.current_step = 1])
    ELSE Report(c, {"Please enter some text!"})

\* lines 955-962
LoadTextButton(c, e) ==
    IF e.pressed # "Load Text" THEN c
    ELSE IF strip(e.text_input) # ""
    THEN Rerun([c EXCEPT !.transcript = strip(e.text_input),
                         !.current_step = 2])
    ELSE Report(c, {"Please enter some text!"})

\* lines 946-962
PasteText(c, e) == LoadTextButton(Show(c, {"Load Text"}), e)

\* lines 973-977
LoadFileButton(c, e) ==
    IF e.pressed # "Load File" THEN c
    ELSE Rerun([c EXCEPT !.transcript = e.text_file.content,
                         !.current_step = 2])

\* lines 964-977; decoding a file that is not UTF-8 raises on line 970
LoadFromFile(c, e) ==
    IF ~e.text_file.present THEN c
    ELSE IF ~e.text_file.utf8 THEN Crash(c)
    ELSE LoadFileButton(Show(c, {"Load File"}), e)

\* lines 908-977
InputMethod(c, e, k) ==
    CASE e.input_method = "Upload Audio File" -> UploadAudio(c, e, k)
      [] e.input_method = "Paste Text" -> PasteText(c, e)
      [] OTHER -> LoadFromFile(c, e)

\* lines 905-977
InputTab(c, e, k) == InputMethod(Show(c, {"input_method"}), e, k)

\* lines 1001-1004; len() of a number raises TypeError on line 1002
Extracted(c, r) ==
    IF ~Truthy(r.value) THEN c
    ELSE IF r.value.kind = "number" THEN Crash(c)
    ELSE Rerun(c)

\* lines 997-999
ExtractCall(c, r) ==
    Extracted([Called(c, "extract", r) EXCEPT !.vocabulary = r.value,
                                              !.current_step = 3], r)

\* lines 995-1004
ExtractButton(c, e, k) ==
    IF e.pressed # "Extract B2 Vocabulary" THEN c
    ELSE ExtractCall(c, extract_b2_vocabulary(k, c.transcript, e.vocabApi))

ExtractSectionUnguarded(c, e, k) ==
    IF c.transcript = "" THEN c
    ELSE ExtractButton(Show(c, {"Extract B2 Vocabulary"}), e, k)

\* lines 979-1009
ExtractSection(c, e, k) ==
    IF c.transcript = "" \/ Truthy(c.vocabulary) THEN c
    ELSE ExtractButton(Show(c, {"Extract B2 Vocabulary"}), e, k)

\* lines 1162-1165
ContinueButton(c, e) ==
    IF e.pressed = "Continue to Assessment"
    THEN Rerun([c EXCEPT !.current_step = 4])
    ELSE c

\* lines 1014-1165; v["pos"] over the keys of a dict raises TypeError on
\* line 1037
StudyTab(c, e) ==
    IF ~Truthy(c.vocabulary) THEN c
    ELSE IF c.vocabulary.kind # "list" THEN Crash(c)
    ELSE ContinueButton(Show(c, {"Export to CSV", "Continue to Assessment"}), e)

AnsweredAlwaysScores(c, i) ==
    Rerun([c EXCEPT !.selected_answer = i,
                    !.quiz_answered = TRUE,
                    !.quiz_total = @ + 1,
                    !.quiz_score = @ + 1])

\* lines 1251-1258: option i was pressed
Answered(c, i) ==
    Rerun([c EXCEPT !.selected_answer = i,
                    !.quiz_answered = TRUE,
                    !.quiz_total = @ + 1,
                    !.quiz_score = IF i = c.current_quiz.correct
                                   THEN @ + 1 ELSE @])

\* lines 1238-1258, the buttons being enabled
OptionButtons(c, e) ==
    IF \E i \in 0 .. NumOptions - 1 : e.pressed = OptionKeys[i + 1]
    THEN Answered(c, CHOOSE i \in 0 .. NumOptions - 1 :
                         e.pressed = OptionKeys[i + 1])
    ELSE c

AnswerButtonsNeverDisabled(c, e) ==
    OptionButtons(Show(c, {OptionKeys[i + 1] : i \in 0 .. NumOptions - 1}), e)

\* lines 1238-1258: the option buttons, in order; a disabled button cannot
\* report True
AnswerButtons(c, e) ==
    IF c.quiz_answered THEN c
    ELSE OptionButtons(Show(c, {OptionKeys[i + 1] : i \in 0 .. NumOptions - 1}), e)

\* lines 1275-1281
NextButton(c, e) ==
    IF e.pressed = "Next Question"
    THEN Rerun([c EXCEPT !.current_quiz = NoneQuiz,
                         !.quiz_answered = FALSE,
                         !.selected_answer = NoneAnswer,
                         !.quizFailed = FALSE])
    ELSE c

\* lines 1264-1269
Verdict(c) ==
    IF c.selected_answer = c.current_quiz.correct THEN c
    ELSE Report(c, {"Incorrect."})

\* lines 1261-1281
ResultSection(c, e) ==
    IF ~c.quiz_answered THEN c
    ELSE NextButton(Show(Verdict(c), {"Next Question"}), e)

\* lines 1229-1281; subscripting a quiz that is not a dict raises
QuestionSection(c, e) ==
    IF ~TruthyQuiz(c.current_quiz) THEN c
    ELSE IF c.current_quiz.kind # "object" THEN Crash(c)
    ELSE Then(AnswerButtons(c, e), LAMBDA a : ResultSection(a, e))

GeneratedAlwaysReruns(c, r) ==
    IF TruthyQuiz(r.value)
    THEN Rerun([c EXCEPT !.current_quiz = r.value,
                         !.quiz_answered = FALSE,
                         !.selected_answer = NoneAnswer])
    ELSE Rerun(c)

\* lines 1216-1220, c holding what the call reported
Generated(c, r) ==
    IF TruthyQuiz(r.value)
    THEN Rerun([c EXCEPT !.current_quiz = r.value,
                         !.quiz_answered = FALSE,
                         !.selected_answer = NoneAnswer])
    ELSE c

\* line 1214
GenerateCall(c, r) ==
    Generated([Called(c, "quiz", r) EXCEPT
                   !.retried = c.quizFailed /\ r.issued # {},
                   !.quizFailed = ~TruthyQuiz(r.value)], r)

\* lines 1205-1220: a question is requested when the button is pressed and
\* also in every run that finds current_quiz to be None
GenerateButton(c, e, k) ==
    IF e.pressed = "Generate Question" \/ c.current_quiz = NoneQuiz
    THEN GenerateCall(c, generate_quiz_question(k, e.choice, c.vocabulary.of,
                                                e.quizApi))
    ELSE c

\* lines 1204-1220
GenerateSection(c, e, k) == GenerateButton(Show(c, {"Generate Question"}), e, k)

ResetScoreButtonTotalOnly(c, e) ==
    IF e.pressed = "Reset Score"
    THEN Rerun([c EXCEPT !.quiz_total = 0])
    ELSE c

\* lines 1223-1226
ResetScoreButton(c, e) ==
    IF e.pressed = "Reset Score"
    THEN Rerun([c EXCEPT !.quiz_score = 0, !.quiz_total = 0])
    ELSE c

\* lines 1222-1226
ScoreSection(c, e) == ResetScoreButton(Show(c, {"Reset Score"}), e)

\* lines 1195-1199
QuizState(c) ==
    IF c.current_quiz = UnsetQuiz
    THEN [c EXCEPT !.current_quiz = NoneQuiz,
                   !.quiz_answered = FALSE,
                   !.selected_answer = NoneAnswer]
    ELSE c

\* lines 1170-1281
QuizTab(c, e, k) ==
    IF ~Truthy(c.vocabulary) THEN c
    ELSE Then(Then(GenerateSection(QuizState(c), e, k),
                   LAMBDA g : ScoreSection(g, e)),
              LAMBDA s : QuestionSection(s, e))

\* lines 236-1281
main(c, e, k) ==
    Then(Then(Then(Then(Sidebar([c EXCEPT !.mainRan = TRUE], e),
                        LAMBDA a : InputTab(a, e, k)),
                   LAMBDA b : ExtractSection(b, e, k)),
              LAMBDA x : StudyTab(x, e)),
         LAMBDA y : QuizTab(y, e, k))

\* lines 1284-1347: main() is called whether or not the key is set
Script(c, e, k) ==
    Then(Then(ModuleLevel(c, e, k), LAMBDA m : main(m, e, k)),
         LAMBDA r : [r EXCEPT !.halt = "done"])

(***************************************************************************)
(* Inputs of a run.                                                        *)
(***************************************************************************)
ApiFail == [ok |-> FALSE, content |-> <<>>]
ApiSays(content) == [ok |-> TRUE, content |-> content]

VocabContents ==
    {<<Body(JList(n))>> : n \in 0 .. MaxVocab} \cup
    {<<FENCE, JSONTAG, WS, Body(JList(1)), WS, FENCE>>,
     <<FENCE, WS, Body(JList(1)), FENCE>>,
     <<Body(JList(1)), JUNK>>,
     <<Body(JObject(0))>>, <<Body(JNumber(5))>>, <<Body(JNull)>>, <<JUNK>>}
VocabOutcomes == {ApiFail} \cup {ApiSays(x) : x \in VocabContents}

QuizContents ==
    {<<Body(JObject(0))>>,
     <<FENCE, JSONTAG, WS, Body(JObject(NumOptions - 1)), WS, FENCE>>,
     <<JUNK>>}
QuizOutcomes == {ApiFail} \cup {ApiSays(x) : x \in QuizContents}

SttFail == [ok |-> FALSE, text |-> ""]
SttSays(t) == [ok |-> TRUE, text |-> t]
SttOutcomes == {SttFail, SttSays(""), SttSays("t1")}

IoOk == [open |-> TRUE, write |-> TRUE, remove |-> TRUE,
         exists |-> FALSE, cleanup |-> TRUE]
IoOutcomes ==
    {IoOk,
     [IoOk EXCEPT !.open = FALSE],
     [IoOk EXCEPT !.write = FALSE],
     [IoOk EXCEPT !.write = FALSE, !.exists = TRUE],
     [IoOk EXCEPT !.write = FALSE, !.exists = TRUE, !.cleanup = FALSE],
     [IoOk EXCEPT !.remove = FALSE, !.exists = TRUE],
     [IoOk EXCEPT !.remove = FALSE, !.exists = TRUE, !.cleanup = FALSE]}

AudioSizes == {MaxUploadBytes, MaxUploadBytes + 1}

NoFile == [present |-> FALSE, utf8 |-> TRUE, content |-> ""]
TextFile(t) == [present |-> TRUE, utf8 |-> TRUE, content |-> t]
BadFile == [present |-> TRUE, utf8 |-> FALSE, content |-> ""]

\* the options the user is taken to press: the first and the last
PressedOptions == {0, NumOptions - 1}

\* random.choice(st.session_state.vocabulary) on line 1211
Choices == 1 .. (IF vocabulary.kind = "list" /\ vocabulary.n > 0
                 THEN vocabulary.n ELSE 1)

\* the widget values and call outcomes of a run in which button b reports
\* True; the actions below replace the values their handlers read
Env(b) ==
    [pressed |-> b, input_method |-> "Paste Text", audio |-> 0, io |-> IoOk,
     stt |-> SttFail, text_input |-> "",
     text_file |-> NoFile, vocabApi |-> ApiFail, quizApi |-> ApiFail, choice |-> 1]

(***************************************************************************)
(* The session state machine.                                              *)
(***************************************************************************)
StartOfRun ==
    [transcript |-> transcript, vocabulary |-> vocabulary,
     quiz_score |-> quiz_score, quiz_total |-> quiz_total,
     current_step |-> current_step, current_quiz |-> current_quiz,
     quiz_answered |-> quiz_answered, selected_answer |-> selected_answer,
     halt |-> "none", errors |-> {}, rendered |-> {}, attempted |-> {},
     issued |-> {}, mainRan |-> FALSE, quizFailed |-> quizFailed,
     retried |-> FALSE, uploaded_audio |-> 0]

\* lines 836-845 and 1196-1199: a session that holds nothing yet
NewSession ==
    [transcript |-> "", vocabulary |-> EmptyVocab,
     quiz_score |-> 0, quiz_total |-> 0,
     current_step |-> 1, current_quiz |-> UnsetQuiz,
     quiz_answered |-> FALSE, selected_answer |-> NoneAnswer,
     halt |-> "none", errors |-> {}, rendered |-> {}, attempted |-> {},
     issued |-> {}, mainRan |-> FALSE, quizFailed |-> FALSE,
     retried |-> FALSE, uploaded_audio |-> 0]

Becomes(r, b) ==
    /\ transcript' = r.transcript
    /\ vocabulary' = r.vocabulary
    /\ quiz_score' = r.quiz_score
    /\ quiz_total' = r.quiz_total
    /\ current_step' = r.current_step
    /\ current_quiz' = r.current_quiz
    /\ quiz_answered' = r.quiz_answered
    /\ selected_answer' = r.selected_answer
    /\ pressed' = b
    /\ halt' = r.halt
    /\ errors' = r.errors
    /\ rendered' = r.rendered
    /\ attempted' = r.attempted
    /\ issued' = r.issued
    /\ mainRan' = r.mainRan
    /\ quizFailed' = r.quizFailed
    /\ retried' = r.retried
    /\ uploaded_audio' = r.uploaded_audio
    /\ UNCHANGED <<OPENAI_API_KEY, splitVars, parseVars>>

Run(e) == Becomes(Script(StartOfRun, e, OPENAI_API_KEY), e.pressed)

\* a run with inputs e; the outcome of the quiz request and the word that
\* random.choice picks are inputs of the runs that reach line 1211
RunScript(e) ==
    IF "quiz" \in Script(StartOfRun, e, OPENAI_API_KEY).attempted
    THEN \E qa \in QuizOutcomes, ch \in Choices :
            Run([e EXCEPT !.quizApi = qa, !.choice = ch])
    ELSE Run(e)

CanPress(b) == halt # "rerun" /\ b \in rendered

\* a press of a button whose handler takes no further input
Press(b) == CanPress(b) /\ RunScript(Env(b))

LaunchDemo == Press("Launch Demo")
ResetPipeline == Press("Reset Pipeline")
ExportToCSV == Press("Export to CSV")
ContinueToAssessment == Press("Continue to Assessment")
GenerateQuestion == Press("Generate Question")
ResetScore == Press("Reset Score")
NextQuestion == Press("Next Question")

\* the radio button and the uploaders let the user reach each of the three
\* input buttons whenever the input tab has been drawn
TranscribeAudio ==
    /\ CanPress("input_method")
    /\ \E size \in AudioSizes, io \in IoOutcomes, stt \in SttOutcomes :
          /\ (io = IoOk \/ stt = SttSays("t1"))
          /\ RunScript([Env("Transcribe Audio") EXCEPT
                           !.input_method = "Upload Audio File",
                           !.audio = size, !.io = io, !.stt = stt])

LoadText ==
    /\ CanPress("input_method")
    /\ \E t \in Texts : RunScript([Env("Load Text") EXCEPT !.text_input = t])

LoadFile ==
    /\ CanPress("input_method")
    /\ \E t \in Texts :
          RunScript([Env("Load File") EXCEPT
                         !.input_method = "Load from File",
                         !.text_file = TextFile(t)])

ExtractVocabulary ==
    /\ CanPress("Extract B2 Vocabulary")
    /\ \E va \in VocabOutcomes :
          RunScript([Env("Extract B2 Vocabulary") EXCEPT !.vocabApi = va])

Answer ==
    /\ quiz_total < MaxTotal
    /\ \E i \in PressedOptions :
          /\ CanPress(OptionKeys[i + 1])
          /\ RunScript(Env(OptionKeys[i + 1]))

\* any other interaction (a widget changes, a file is chosen): the script
\* runs with no button pressed
Interact ==
    /\ halt # "rerun"
    /\ \E f \in {NoFile, BadFile} :
          RunScript([Env("none") EXCEPT
                         !.input_method = IF f.present THEN "Load from File"
                                          ELSE "Paste Text",
                         !.text_file = f])

\* st.rerun(): the script runs again at once, no button pressed
RerunScript == halt = "rerun" /\ RunScript(Env("none"))

\* the session holds the state r
Holds(r) ==
    /\ transcript = r.transcript
    /\ vocabulary = r.vocabulary
    /\ quiz_score = r.quiz_score
    /\ quiz_total = r.quiz_total
    /\ current_step = r.current_step
    /\ current_quiz = r.current_quiz
    /\ quiz_answered = r.quiz_answered
    /\ selected_answer = r.selected_answer
    /\ pressed = "none"
    /\ halt = r.halt
    /\ errors = r.errors
    /\ rendered = r.rendered
    /\ attempted = r.attempted
    /\ issued = r.issued
    /\ mainRan = r.mainRan
    /\ quizFailed = r.quizFailed
    /\ retried = r.retried
    /\ uploaded_audio = r.uploaded_audio

\* a new session: the state its first run of the script leaves
AppInit ==
    /\ OPENAI_API_KEY \in BOOLEAN
    /\ Holds(Script(NewSession, Env("none"), OPENAI_API_KEY))

(***************************************************************************)
(* The chunk splitter, split(path, chunk_size_bytes), of section 4.1.      *)
(***************************************************************************)
HeaderLen == 44

Min(a, b) == IF a < b THEN a ELSE b
Take(s, n) == SubSeq(s, 1, Min(n, Len(s)))
Drop(s, n) == SubSeq(s, n + 1, Len(s))

NumChunksCeil(size, chunk) == (size + chunk - 1) \div chunk

NumChunksFloor(size, chunk) == size \div chunk

\* N = floor(size / chunk_size_bytes) + 1
NumChunks(size, chunk) == (size \div chunk) + 1

ReadSizeUncapped(chunk, done, size, pos) == Min(ReadIncrement, size - pos)

\* the bytes one bounded read yields: at most ReadIncrement, no more than
\* the chunk still takes, no more than the source still holds
ReadSize(chunk, done, size, pos) ==
    Min(Min(ReadIncrement, chunk - done), size - pos)

ChunkHeaderFirstOnly(h, i) == IF i = 1 THEN h ELSE <<>>

\* what is put at the front of every output file
ChunkHeader(h, i) == h

HeaderEndRewound(size) == 0

\* the source read position once the header has been read
HeaderEnd(size) == Min(HeaderLen, size)

\* for i in 1..N: the body runs only if there is a first chunk
LoopEntry(n) == IF n >= 1 THEN "open" ELSE "done"

Sizes == {s \in 0 .. HeaderLen + MaxPayload :
              s <= SmallSize \/ s >= HeaderLen - 1}
Strides == {1, 7}
SourceFiles == {[j \in 1 .. s |-> (j * k) % 256] : s \in Sizes, k \in Strides}

SplitInit ==
    /\ source \in SourceFiles
    /\ chunk_size_bytes \in (1 .. MaxChunk) \cup
                            {c \in {Len(source), Len(source) + 1} : c > 0}
    /\ num_chunks = 0
    /\ header = <<>>
    /\ position = 0
    /\ files = <<>>
    /\ written = 0
    /\ result = <<>>
    /\ splitPc = "start"

\* compute N, open the source, read the first 44 bytes as header
SplitBegin ==
    /\ splitPc = "start"
    /\ num_chunks' = NumChunks(Len(source), chunk_size_bytes)
    /\ header' = Take(source, HeaderLen)
    /\ position' = HeaderEnd(Len(source))
    /\ splitPc' = LoopEntry(NumChunks(Len(source), chunk_size_bytes))
    /\ UNCHANGED <<source, chunk_size_bytes, files, written, result, appVars,
                   parseVars>>

\* open output file number Len(files) + 1 and write the header
OpenChunk ==
    /\ splitPc = "open"
    /\ files' = Append(files, ChunkHeader(header, Len(files) + 1))
    /\ written' = 0
    /\ splitPc' = "stream"
    /\ UNCHANGED <<source, chunk_size_bytes, num_chunks, header, position,
                   result, appVars, parseVars>>

\* one bounded read from the current source position, copied to the chunk
StreamIncrement ==
    /\ splitPc = "stream"
    /\ LET n == ReadSize(chunk_size_bytes, written, Len(source), position)
       IN /\ n > 0
          /\ files' = [files EXCEPT ![Len(files)] =
                           @ \o SubSeq(source, position + 1, position + n)]
          /\ position' = position + n
          /\ written' = written + n
    /\ UNCHANGED <<source, chunk_size_bytes, num_chunks, header, result,
                   splitPc, appVars, parseVars>>

\* the chunk is full or the source is at end-of-stream: close the output
\* and append its path to the result
CloseChunk ==
    /\ splitPc = "stream"
    /\ ReadSize(chunk_size_bytes, written, Len(source), position) <= 0
    /\ result' = Append(result, Len(files))
    /\ splitPc' = IF Len(files) < num_chunks THEN "open" ELSE "done"
    /\ UNCHANGED <<source, chunk_size_bytes, num_chunks, header, position,
                   files, written, appVars, parseVars>>

LeftOnDiskCleaned(fs) == IF fs = <<>> THEN fs ELSE SubSeq(fs, 1, Len(fs) - 1)

\* the output files an aborted split leaves behind: no partial-chunk
\* cleanup is performed
LeftOnDisk(fs) == fs

\* a read or write error: the operation aborts, nothing is cleaned up
SplitIOError ==
    /\ splitPc \in {"open", "stream"}
    /\ splitPc' = "failed"
    /\ result' = <<>>
    /\ files' = LeftOnDisk(files)
    /\ UNCHANGED <<source, chunk_size_bytes, num_chunks, header, position,
                   written, appVars, parseVars>>

SplitIdle ==
    /\ source = <<>>
    /\ chunk_size_bytes = 1
    /\ num_chunks = 0
    /\ header = <<>>
    /\ position = 0
    /\ files = <<>>
    /\ written = 0
    /\ result = <<>>
    /\ splitPc = "idle"

SplitNext ==
    \/ SplitBegin
    \/ OpenChunk
    \/ StreamIncrement
    \/ CloseChunk
    \/ SplitIOError

(***************************************************************************)
(* Lines 157-167 on their own: the response text is stripped of its fences *)
(* and parsed once.                                                        *)
(***************************************************************************)
Tokens == {FENCE, JSONTAG, WS, JUNK, Body(JList(1)), Body(JNull)}
Responses == UNION {[1 .. n -> Tokens] : n \in 0 .. MaxTokens}
NotLoaded == [ok |-> FALSE, v |-> JNull]

ParseInit ==
    /\ response \in Responses
    /\ cleaned = <<>>
    /\ loaded = NotLoaded
    /\ parsePc = "start"

\* lines 157-165
StripFences ==
    /\ parsePc = "start"
    /\ cleaned' = CleanFence(response)
    /\ parsePc' = "cleaned"
    /\ UNCHANGED <<response, loaded, appVars, splitVars>>

\* line 167; a failure is caught on line 170
ParseJson ==
    /\ parsePc = "cleaned"
    /\ loaded' = json_loads(cleaned)
    /\ parsePc' = "parsed"
    /\ UNCHANGED <<response, cleaned, appVars, splitVars>>

ParseIdle ==
    /\ response = <<>>
    /\ cleaned = <<>>
    /\ loaded = NotLoaded
    /\ parsePc = "idle"

ParseNext == StripFences \/ ParseJson

vars == <<appVars, splitVars, parseVars>>

Init == AppInit /\ SplitIdle /\ ParseIdle

Next ==
    \/ LaunchDemo
    \/ ResetPipeline
    \/ TranscribeAudio
    \/ LoadText
    \/ LoadFile
    \/ ExtractVocabulary
    \/ ExportToCSV
    \/ ContinueToAssessment
    \/ GenerateQuestion
    \/ ResetScore
    \/ Answer
    \/ NextQuestion
    \/ Interact
    \/ RerunScript

Spec == Init /\ [][Next]_vars

SplitSpecInit == OPENAI_API_KEY = TRUE /\ AppInit /\ SplitInit /\ ParseIdle

SplitSpec == SplitSpecInit /\ [][SplitNext]_vars

ParseSpecInit == OPENAI_API_KEY = TRUE /\ AppInit /\ SplitIdle /\ ParseInit

ParseSpec == ParseSpecInit /\ [][ParseNext]_vars

(***************************************************************************)
(* Properties of the session (checked under Spec).                         *)
(***************************************************************************)
\* responses of the extraction request that do not parse
UnparsableVocab == {<<JUNK>>, <<Body(JList(1)), JUNK>>, <<FENCE, JSONTAG>>}

\* the press of "Extract B2 Vocabulary" that reaches the handler, the
\* request having outcome va
ExtractWith(va) ==
    /\ CanPress("Extract B2 Vocabulary")
    /\ RunScript([Env("Extract B2 Vocabulary") EXCEPT !.vocabApi = va])
    /\ "extract" \in attempted'

\* C1: when the extraction call fails (it raises, or its response does not
\* parse) on a press of "Extract B2 Vocabulary", the run ends with an empty
\* vocabulary list, an error message reported and no uncaught exception.
C1_ExtractFailureHandled ==
    [][\A va \in {ApiFail} \cup {ApiSays(x) : x \in UnparsableVocab} :
          ExtractWith(va) =>
              /\ vocabulary' = EmptyVocab
              /\ "Error extracting vocabulary" \in errors'
              /\ halt' # "crash"]_vars

C1_Witness ==
    /\ pressed = "Extract B2 Vocabulary"
    /\ "extract" \in issued
    /\ "Error extracting vocabulary" \in errors
    /\ vocabulary = EmptyVocab
    /\ halt = "done"

\* C2: after "Reset Pipeline" the transcript is empty, the vocabulary list
\* is empty, quiz score and total are 0, the current step is 1 and no quiz
\* question is held.
C2_ResetClearsAll ==
    (pressed = "Reset Pipeline" /\ halt = "rerun") =>
        /\ transcript = ""
        /\ vocabulary = EmptyVocab
        /\ quiz_score = 0
        /\ quiz_total = 0
        /\ current_step = 1
        /\ current_quiz \in {UnsetQuiz, NoneQuiz}

FailureMessages ==
    [transcribe |-> {"Transcription error", "Error processing audio"},
     extract |-> {"Error extracting vocabulary"},
     quiz |-> {"Error generating quiz"}]

KeyMessage == "OpenAI API key not configured."

\* C3 as stated: without a credential the instructional message is shown,
\* main() is never run and no remote operation is triggered.
C3_MissingKeyFatal ==
    ~OPENAI_API_KEY =>
        /\ KeyMessage \in errors
        /\ ~mainRan
        /\ attempted = {}

\* C3 amended: without a credential the instructional message is shown in
\* every run, main() is still run (unless "Launch Demo" restarts the run
\* first), and every remote operation that is triggered fails with its
\* error message without a request being sent.
C3_MissingKeyNoRequest ==
    ~OPENAI_API_KEY =>
        /\ KeyMessage \in errors
        /\ (pressed # "Launch Demo" => mainRan)
        /\ issued = {}
        /\ \A op \in attempted : FailureMessages[op] \cap errors # {}

C3_Witness ==
    /\ ~OPENAI_API_KEY
    /\ mainRan
    /\ KeyMessage \in errors
    /\ "quiz" \in attempted
    /\ current_quiz = NoneQuiz

\* the press of "Transcribe Audio" on a file of an accepted size that
\* reaches the handler
TranscribeWith(io, stt) ==
    /\ CanPress("input_method")
    /\ RunScript([Env("Transcribe Audio") EXCEPT
                      !.input_method = "Upload Audio File",
                      !.audio = MaxUploadBytes, !.io = io, !.stt = stt])
    /\ "transcribe" \in attempted'

\* C4: when the speech-to-text call or the temporary-file I/O fails on a
\* press of "Transcribe Audio", the failure is caught (the run does not
\* end in an uncaught exception), an error message is reported, and the
\* transcript and the current step are unchanged.
C4_TranscribeFailureHandled ==
    [][\A io \in IoOutcomes, stt \in SttOutcomes :
          (TranscribeWith(io, stt) /\ (io # IoOk \/ ~stt.ok)) =>
              /\ halt' # "crash"
              /\ errors' \cap {"Transcription error", "Error processing audio"} # {}
              /\ transcript' = transcript
              /\ current_step' = current_step]_vars

\* C5: no retry.  A request goes out only in a run whose button asks for
\* it, and a quiz request that follows one that yielded no quiz goes out
\* only on "Generate Question" (or after "Next Question").
C5_NoRetry ==
    /\ "transcribe" \in issued => pressed = "Transcribe Audio"
    /\ "extract" \in issued => pressed = "Extract B2 Vocabulary"
    /\ retried => pressed = "Generate Question"

(***************************************************************************)
(* Properties of the chunk splitter (checked under SplitSpec).             *)
(***************************************************************************)
Payload(f) == Drop(f, HeaderLen)

RECURSIVE PayloadSum(_)
PayloadSum(fs) ==
    IF fs = <<>> THEN 0
    ELSE (Len(Head(fs)) - HeaderLen) + PayloadSum(Tail(fs))

RECURSIVE Payloads(_)
Payloads(fs) == IF fs = <<>> THEN <<>> ELSE Payload(Head(fs)) \o Payloads(Tail(fs))

SplitDone == splitPc = "done"

\* C6: for every source of size S > 0 and chunk size C > 0, a successful
\* split has produced exactly floor(S/C)+1 chunk files.
C6_ChunkCount ==
    (SplitDone /\ Len(source) > 0 /\ chunk_size_bytes > 0)
        => /\ Len(files) = (Len(source) \div chunk_size_bytes) + 1
           /\ Len(result) = (Len(source) \div chunk_size_bytes) + 1

C6_Witness ==
    /\ SplitDone
    /\ Len(source) > HeaderLen
    /\ Len(source) % chunk_size_bytes = 0
    /\ Len(files) >= 3

\* C7 as stated: for every S and C, after a successful split the chunks'
\* sizes minus 44 sum to S - 44.
C7_PayloadSumAnySize ==
    SplitDone => PayloadSum(files) = Len(source) - HeaderLen

\* C7 amended: the same for every source that holds a whole header,
\* S >= 44.
C7_PayloadSum ==
    (SplitDone /\ Len(source) >= HeaderLen)
        => PayloadSum(files) = Len(source) - HeaderLen

C7_Witness ==
    /\ SplitDone
    /\ Len(source) > HeaderLen
    /\ Len(files) >= 3
    /\ Len(Payload(files[1])) = chunk_size_bytes
    /\ Len(Payload(files[2])) \in 1 .. chunk_size_bytes - 1

\* C8: after a successful split the chunks are numbered 1..N in source
\* order, each payload is at most chunk_size_bytes long and starts where
\* the previous one ended, so the payloads in order are exactly the source
\* after its 44-byte header.
C8_SequentialNoOverlap ==
    SplitDone =>
        /\ result = [i \in 1 .. num_chunks |-> i]
        /\ Len(files) = num_chunks
        /\ \A i \in 1 .. Len(files) :
              /\ Len(Payload(files[i])) <= chunk_size_bytes
              /\ Payload(files[i]) =
                    SubSeq(source,
                           HeaderLen + Len(Payloads(SubSeq(files, 1, i - 1))) + 1,
                           HeaderLen + Len(Payloads(SubSeq(files, 1, i))))
        /\ Payloads(files) = Drop(source, HeaderLen)

C8_Witness ==
    /\ SplitDone
    /\ Len(files) >= 3
    /\ Payload(files[1]) # <<>>
    /\ Payload(files[2]) # <<>>
    /\ Payload(files[3]) # <<>>

\* C9: every chunk file the splitter has produced, whatever its number and
\* payload, begins with the first 44 bytes of the source.
C9_HeaderCopied ==
    \A i \in 1 .. Len(files) :
        Take(files[i], HeaderLen) = Take(source, HeaderLen)

C9_Witness ==
    /\ SplitDone
    /\ Len(source) > HeaderLen
    /\ Len(files) >= 3
    /\ Payload(files[1]) # <<>>
    /\ Payload(files[Len(files)]) = <<>>
    /\ Len(files[Len(files)]) = HeaderLen

\* C10: when the source size is an exact multiple of the chunk size, the
\* final chunk of a successful split, chunk number floor(S/C)+1, holds the
\* header and no payload byte.
C10_ExactMultipleEmptyTail ==
    (SplitDone /\ Len(source) % chunk_size_bytes = 0)
        => /\ Len(files) = (Len(source) \div chunk_size_bytes) + 1
           /\ files[Len(files)] = header
           /\ Payload(files[Len(files)]) = <<>>

C10_Witness ==
    /\ SplitDone
    /\ Len(source) > HeaderLen
    /\ Len(source) % chunk_size_bytes = 0
    /\ chunk_size_bytes > 1
    /\ Payload(files[1]) # <<>>
    /\ Len(files) = num_chunks
    /\ Payload(files[num_chunks]) = <<>>

\* C11: splitting a zero-length file, or a file that holds only the 44-byte
\* header, fails cleanly: no chunk file is produced, no chunk path is
\* returned and the split does not end in success.
C11_DegenerateSourceFails ==
    Len(source) \in {0, HeaderLen}
        => /\ files = <<>>
           /\ result = <<>>
           /\ splitPc # "done"

\* C12: a read or write error while chunk i is produced aborts the split:
\* the step that fails returns no list of paths and leaves the files written
\* so far, the partial chunk i included, as they are, and nothing happens
\* after the failure, so no chunk with a greater number is created.
C12_ErrorAborts ==
    [][/\ splitPc # "failed"
       /\ splitPc' = "failed" => /\ result' = <<>>
                                 /\ files' = files
                                 /\ Len(files') <= num_chunks]_vars

C12_Witness ==
    /\ splitPc = "failed"
    /\ Len(files) = 2
    /\ num_chunks >= 3
    /\ Payload(files[1]) # <<>>
    /\ Len(Payload(files[2])) \in 1 .. chunk_size_bytes - 1
    /\ position < Len(source)

(***************************************************************************)
(* Further properties of the session (checked under Spec).                 *)
(***************************************************************************)
\* C14: the session vocabulary is always a list: a response that parses to an
\* object, a number or null is not stored, the empty list is.
C14_VocabularyAlwaysList == vocabulary.kind = "list"

TooLarge == "File too large! Maximum size is 25MB."

\* C15: on "Transcribe Audio" a file of more than 25*1024*1024 bytes is
\* rejected with an error, transcribe_uploaded_audio is not called (no
\* temporary file, no request) and transcript and step stay as they are; a
\* file of exactly 25*1024*1024 bytes is passed to transcribe_uploaded_audio
\* without that error.
C15_UploadLimit ==
    [][(pressed' = "Transcribe Audio" /\ "Transcribe Audio" \in rendered') =>
          /\ uploaded_audio' > 25 * 1024 * 1024 =>
                /\ TooLarge \in errors'
                /\ "transcribe" \notin attempted'
                /\ "transcribe" \notin issued'
                /\ transcript' = transcript
                /\ current_step' = current_step
          /\ uploaded_audio' = 25 * 1024 * 1024 =>
                /\ TooLarge \notin errors'
                /\ "transcribe" \in attempted']_vars

C15_Witness ==
    /\ pressed = "Transcribe Audio"
    /\ uploaded_audio = 25 * 1024 * 1024 + 1
    /\ TooLarge \in errors
    /\ "transcribe" \notin attempted
    /\ transcript = "t1"
    /\ current_step = 3

\* C16 as stated: the current step never decreases, except when "Reset
\* Pipeline" sets it back to 1.
C16_StepMonotone ==
    [][current_step' < current_step =>
          (pressed' = "Reset Pipeline" /\ current_step' = 1)]_vars

InputButtons == {"Transcribe Audio", "Load Text", "Load File"}

\* C16 amended: the current step decreases only when "Reset Pipeline" sets
\* it back to 1, when new input is taken in ("Transcribe Audio", "Load Text"
\* or "Load File" set it to 2) or when "Launch Demo" sets it to 3.
C16_StepDecreases ==
    [][current_step' < current_step =>
          \/ pressed' = "Reset Pipeline" /\ current_step' = 1
          \/ pressed' \in InputButtons /\ current_step' = 2
          \/ pressed' = "Launch Demo" /\ current_step' = 3]_vars

C16_Witness ==
    /\ pressed = "Load Text"
    /\ halt = "rerun"
    /\ current_step = 2
    /\ Truthy(vocabulary)
    /\ TruthyQuiz(current_quiz)

\* C17: a press of answer option i on an unanswered question adds 1 to the
\* quiz total, adds 1 to the quiz score if i is the question's correct index
\* and nothing otherwise, records i as the selected answer and marks the
\* question answered (the question itself stays).
C17_AnswerUpdates ==
    [][\A i \in 0 .. NumOptions - 1 :
          (pressed' = OptionKeys[i + 1] /\ ~quiz_answered) =>
              /\ quiz_total' = quiz_total + 1
              /\ quiz_score' = quiz_score +
                                (IF i = current_quiz.correct THEN 1 ELSE 0)
              /\ selected_answer' = i
              /\ quiz_answered'
              /\ current_quiz' = current_quiz]_vars

C17_Witness ==
    /\ pressed = OptionKeys[NumOptions]
    /\ selected_answer = NumOptions - 1
    /\ quiz_answered
    /\ current_quiz.correct = 0
    /\ quiz_total = 2
    /\ quiz_score = 1

\* C18: in every session state 0 <= quiz score <= quiz total.
C18_ScoreWithinTotal == 0 <= quiz_score /\ quiz_score <= quiz_total

C18_Witness ==
    /\ pressed = "Next Question"
    /\ quiz_total = 2
    /\ quiz_score = 1

OptionButtonKeys == {OptionKeys[i + 1] : i \in 0 .. NumOptions - 1}

\* C19: a question is answered at most once: no answer option is pressed
\* (or can be pressed) while the question is marked answered, the mark is
\* cleared only by "Next Question" or by a generation that stores a new
\* question, and the quiz total grows only by 1, on the press that sets the
\* mark.
C19_AnsweredOnce ==
    [][/\ pressed' \in OptionButtonKeys => ~quiz_answered
       /\ (quiz_answered' /\ halt' # "rerun")
             => rendered' \cap OptionButtonKeys = {}
       /\ (quiz_answered /\ ~quiz_answered') =>
             \/ pressed' = "Next Question" /\ current_quiz' = NoneQuiz
             \/ pressed' = "Generate Question" /\ TruthyQuiz(current_quiz')
                                               /\ "quiz" \in attempted'
       /\ quiz_total' > quiz_total =>
             /\ pressed' \in OptionButtonKeys
             /\ quiz_total' = quiz_total + 1
             /\ ~quiz_answered /\ quiz_answered']_vars

C19_Witness ==
    /\ pressed = "Generate Question"
    /\ halt = "rerun"
    /\ "quiz" \in issued
    /\ ~quiz_answered
    /\ quiz_total = 1
    /\ quiz_score = 0

\* C20: whenever the session vocabulary is a non-empty list, it was
\* extracted from the transcript the session holds (or set together with it
\* by "Launch Demo").
C20_VocabularyOfTranscript ==
    (vocabulary.kind = "list" /\ vocabulary.n > 0)
        => vocabulary.of = transcript

\* C21: whenever the session holds a quiz question and a non-empty
\* vocabulary list, the question was generated for a word of that list.
C21_QuizOfCurrentVocabulary ==
    (TruthyQuiz(current_quiz) /\ vocabulary.kind = "list" /\ vocabulary.n > 0)
        => /\ current_quiz.of = vocabulary.of
           /\ current_quiz.word \in 1 .. vocabulary.n

\* C22: in every session state, current step >= 3 implies that the
\* vocabulary is a non-empty list.
C22_StepThreeHasVocabulary ==
    current_step >= 3 => (vocabulary.kind = "list" /\ vocabulary.n > 0)

\* C23: in every session state, current step >= 2 implies that the
\* transcript is not empty.
C23_StepTwoHasTranscript ==
    current_step >= 2 => (transcript # "" /\ transcript # NoneText)

\* C24: extract_b2_vocabulary is called, and so a request issued, only on
\* "Extract B2 Vocabulary" in a state whose transcript is not empty and
\* whose vocabulary holds nothing; a vocabulary that holds something stops
\* holding something only when "Reset Pipeline" stores the empty list.
C24_ExtractionGuard ==
    [][/\ "extract" \in issued' => "extract" \in attempted'
       /\ "extract" \in attempted' =>
             /\ pressed' = "Extract B2 Vocabulary"
             /\ transcript # ""
             /\ ~Truthy(vocabulary)
       /\ (Truthy(vocabulary) /\ ~Truthy(vocabulary')) =>
             /\ pressed' = "Reset Pipeline"
             /\ vocabulary' = EmptyVocab]_vars

C24_Witness ==
    /\ pressed = "Extract B2 Vocabulary"
    /\ "extract" \in issued
    /\ halt = "rerun"
    /\ Truthy(vocabulary)
    /\ TruthyQuiz(current_quiz)
    /\ quiz_answered

\* C25: the app never re-runs itself forever.  A run with no button pressed
\* ends in st.rerun() only when it found no current quiz and stored a
\* generated one, and the re-run that follows such a run does not end in
\* st.rerun(): at most two re-runs follow a user action, at most one of them
\* after the automatic quiz generation, and then the app waits (or has
\* stopped on an exception).
C25_RerunsEnd ==
    [][/\ (pressed' = "none" /\ halt' = "rerun") =>
             /\ current_quiz \in {UnsetQuiz, NoneQuiz}
             /\ "quiz" \in attempted'
             /\ TruthyQuiz(current_quiz')
       /\ (pressed = "none" /\ halt = "rerun") =>
             /\ pressed' = "none"
             /\ halt' \in {"done", "crash"}]_vars

C25_Witness ==
    /\ pressed = "none"
    /\ halt = "rerun"
    /\ "quiz" \in issued
    /\ TruthyQuiz(current_quiz)
    /\ current_step = 3

(***************************************************************************)
(* Properties of the response parse (checked under ParseSpec).             *)
(***************************************************************************)
HasFence(c) == \E i \in 1 .. Len(c) : c[i] = FENCE

LeadingMarkers == {<<>>, <<FENCE>>, <<FENCE, JSONTAG>>}
TrailingMarkers == {<<>>, <<FENCE>>}

\* c is the value b with at most one marker before it and at most one after
\* it, whitespace aside
OneFenceAround(c, b) ==
    \E lead \in LeadingMarkers, trail \in TrailingMarkers :
        /\ Len(c) >= Len(lead) + Len(trail)
        /\ startswith(c, lead)
        /\ endswith(c, trail)
        /\ stripSeq(SubSeq(c, Len(lead) + 1, Len(c) - Len(trail))) = <<b>>

\* C13: the parse sees the response text less surrounding whitespace, at
\* most one leading marker and at most one trailing marker: text with no
\* fence is parsed as it is, a JSON value between one opening and one
\* closing fence parses to that value, and every text that parses is a JSON
\* value with at most one marker on each side.
C13_OnlyFenceStripping ==
    parsePc = "parsed" =>
        /\ ~HasFence(response) => loaded = JsonDocument(stripSeq(response))
        /\ \A b \in Tokens :
              (b.t = "json" /\ OneFenceAround(stripSeq(response), b))
                  => loaded = [ok |-> TRUE, v |-> b.v]
        /\ loaded.ok =>
              \E b \in Tokens :
                  b.t = "json" /\ OneFenceAround(stripSeq(response), b)

====
